---------------------------- MODULE Spec2Model ----------------------------
(* A model of go-gather's classification and dispatch layer:               *)
(*   src/common.go         ClassifyURI, ExpandTilde, URIType, GetHomeDir   *)
(*   src/gather/gather.go  Gather, protocolHandlers                        *)
(* A Go string is a sequence of one-character strings.  The library calls  *)
(* the code makes (regexp.MatchString, url.Parse, filepath.Join) are       *)
(* modelled by what they compute on the characters the model's inputs are  *)
(* made of: letters, digits and  _ . - / : @ ~ \  (no '%', '?', '#', '[',  *)
(* no control characters); filepath is the Unix one (separator '/').       *)
EXTENDS Integers, Sequences, FiniteSets, TLC

-----------------------------------------------------------------------------
(* Bounds *)

\* the number of atoms appended to a prefix to make an input of ClassifyURI
MaxLen == 3
\* the number of concurrent callers of Gather
NumProcs == 2

-----------------------------------------------------------------------------
(* Strings *)

Upper == <<"A", "B", "C", "D", "E", "F", "G", "H", "I", "J", "K", "L", "M",
           "N", "O", "P", "Q", "R", "S", "T", "U", "V", "W", "X", "Y", "Z">>
Lower == <<"a", "b", "c", "d", "e", "f", "g", "h", "i", "j", "k", "l", "m",
           "n", "o", "p", "q", "r", "s", "t", "u", "v", "w", "x", "y", "z">>
Digits == {"0", "1", "2", "3", "4", "5", "6", "7", "8", "9"}
Letters == {Upper[i] : i \in 1..26} \cup {Lower[i] : i \in 1..26}

\* the tail of s from offset n on (Go's s[n:], n counted from 0)
From(s, n) == SubSeq(s, n + 1, Len(s))

\* strings.HasPrefix
HasPrefix(s, prefix) ==
    /\ Len(prefix) <= Len(s)
    /\ SubSeq(s, 1, Len(prefix)) = prefix

\* strings.HasSuffix
HasSuffix(s, suffix) ==
    /\ Len(suffix) <= Len(s)
    /\ SubSeq(s, Len(s) - Len(suffix) + 1, Len(s)) = suffix

\* strings.Contains(s, c) for a one-character c
Contains(s, c) == \E i \in 1..Len(s) : s[i] = c

\* strings.Index(s, c) for a one-character c, counted from 0; -1 when absent
Index(s, c) ==
    IF Contains(s, c)
    THEN (CHOOSE i \in 1..Len(s) : s[i] = c /\ \A j \in 1..(i - 1) : s[j] # c) - 1
    ELSE -1

\* strings.LastIndex(s, c) for a one-character c, counted from 0
LastIndex(s, c) ==
    IF Contains(s, c)
    THEN (CHOOSE i \in 1..Len(s) : s[i] = c /\ \A j \in (i + 1)..Len(s) : s[j] # c) - 1
    ELSE -1

\* strings.ToLower on ASCII
ToLower(s) ==
    [i \in 1..Len(s) |->
        IF \E k \in 1..26 : Upper[k] = s[i]
        THEN Lower[CHOOSE k \in 1..26 : Upper[k] = s[i]]
        ELSE s[i]]

-----------------------------------------------------------------------------
(* regexp: a pattern is a tree, and Ends(re, s, P) is the set of offsets   *)
(* of s at which a match of re that starts at an offset of P can end.      *)

Lit(str) == [op |-> "lit", str |-> str]
Class(set) == [op |-> "class", set |-> set]
Dot == [op |-> "dot"]
Cat(rs) == [op |-> "cat", rs |-> rs]
Alt(rs) == [op |-> "alt", rs |-> rs]
Opt(r) == [op |-> "opt", r |-> r]
Plus(r) == [op |-> "plus", r |-> r]
Star(r) == [op |-> "star", r |-> r]

RECURSIVE Ends(_, _, _)
RECURSIVE EndsCat(_, _, _, _)
RECURSIVE EndsAlt(_, _, _, _)
RECURSIVE EndsClosure(_, _, _)

Ends(re, s, P) ==
    CASE re.op = "lit" ->
            {i + Len(re.str) : i \in {j \in P : HasPrefix(From(s, j), re.str)}}
      [] re.op = "class" ->
            {i + 1 : i \in {j \in P : j < Len(s) /\ s[j + 1] \in re.set}}
      [] re.op = "dot" ->
            \* '.' matches any character but the line feed
            {i + 1 : i \in {j \in P : j < Len(s) /\ s[j + 1] # "\n"}}
      [] re.op = "cat" -> EndsCat(re.rs, 1, s, P)
      [] re.op = "alt" -> EndsAlt(re.rs, 1, s, P)
      [] re.op = "opt" -> P \cup Ends(re.r, s, P)
      [] re.op = "plus" -> EndsClosure(re.r, s, Ends(re.r, s, P))
      [] re.op = "star" -> EndsClosure(re.r, s, P)

EndsCat(rs, k, s, P) ==
    IF k > Len(rs) \/ P = {} THEN P ELSE EndsCat(rs, k + 1, s, Ends(rs[k], s, P))

EndsAlt(rs, k, s, P) ==
    IF k > Len(rs) THEN {} ELSE Ends(rs[k], s, P) \cup EndsAlt(rs, k + 1, s, P)

EndsClosure(r, s, P) ==
    LET Q == P \cup Ends(r, s, P)
    IN  IF Q = P THEN P ELSE EndsClosure(r, s, Q)

\* MatchString of the pattern ^re$
MatchWhole(re, s) == Len(s) \in Ends(re, s, {0})

\* MatchString of the pattern ^re
MatchStart(re, s) == Ends(re, s, {0}) # {}

\* \w
WordChars == Letters \cup Digits \cup {"_"}
\* [\w\.\-]+
W == Plus(Class(WordChars \cup {".", "-"}))
\* (\.git)?
OptDotGit == Opt(Lit(<<".", "g", "i", "t">>))
Slash == Lit(<<"/">>)

\* ^(git@W:W/W(\.git)?|https?://W/W/W(\.git)?|git://W/W/W(\.git)?
\*   |W/W/W//.*|file://.*\.git|W/W(\.git)?)$
gitURIPattern ==
    Alt(<< Cat(<<Lit(<<"g", "i", "t", "@">>), W, Lit(<<":">>), W, Slash, W,
                 OptDotGit>>),
           Cat(<<Lit(<<"h", "t", "t", "p">>), Opt(Lit(<<"s">>)),
                 Lit(<<":", "/", "/">>), W, Slash, W, Slash, W, OptDotGit>>),
           Cat(<<Lit(<<"g", "i", "t", ":", "/", "/">>), W, Slash, W, Slash, W,
                 OptDotGit>>),
           Cat(<<W, Slash, W, Slash, W, Lit(<<"/", "/">>), Star(Dot)>>),
           Cat(<<Lit(<<"f", "i", "l", "e", ":", "/", "/">>), Star(Dot),
                 Lit(<<".", "g", "i", "t">>)>>),
           Cat(<<W, Slash, W, OptDotGit>>) >>)

\* ^((http://|https://)[\w\-]+(\.[\w\-]+)+.*)$
httpURIPattern ==
    Cat(<< Alt(<<Lit(<<"h", "t", "t", "p", ":", "/", "/">>),
                 Lit(<<"h", "t", "t", "p", "s", ":", "/", "/">>)>>),
           Plus(Class(WordChars \cup {"-"})),
           Plus(Cat(<<Lit(<<".">>), Plus(Class(WordChars \cup {"-"}))>>)),
           Star(Dot) >>)

\* ^(\./|\../|/|[a-zA-Z]:\\|~\/|file://).*   (\../ is '.', any character, '/')
filePathPattern ==
    Cat(<< Alt(<<Lit(<<".", "/">>),
                 Cat(<<Lit(<<".">>), Dot, Lit(<<"/">>)>>),
                 Lit(<<"/">>),
                 Cat(<<Class(Letters), Lit(<<":", "\\">>)>>),
                 Lit(<<"~", "/">>),
                 Lit(<<"f", "i", "l", "e", ":", "/", "/">>)>>),
           Star(Dot) >>)

-----------------------------------------------------------------------------
(* net/url: what url.Parse answers to ClassifyURI, which reads the error   *)
(* and the scheme alone.                                                   *)

SchemeChars == Letters \cup Digits \cup {"+", "-", "."}

\* getScheme: [err, scheme, rest]
getScheme(rawURL) ==
    LET none == [err |-> FALSE, scheme |-> <<>>, rest |-> rawURL]
        stops == {i \in 1..Len(rawURL) : rawURL[i] \notin SchemeChars}
        k == CHOOSE i \in stops : \A j \in stops : i <= j
    IN  IF rawURL = <<>> THEN none
        ELSE IF rawURL[1] \in Digits \cup {"+", "-", "."} THEN none
        ELSE IF stops = {} THEN none
        ELSE IF rawURL[k] # ":" THEN none
        ELSE IF k = 1 THEN [err |-> TRUE, scheme |-> <<>>, rest |-> <<>>]
        ELSE [err |-> FALSE, scheme |-> SubSeq(rawURL, 1, k - 1),
              rest |-> From(rawURL, k)]

\* validOptionalPort
validOptionalPort(port) ==
    \/ port = <<>>
    \/ /\ port[1] = ":"
       /\ \A i \in 2..Len(port) : port[i] \in Digits

\* the characters unescape(host, encodeHost) lets through
HostChars ==
    Letters \cup Digits \cup
    {"-", "_", ".", "~", "!", "$", "&", "'", "(", ")", "*", "+", ",", ";",
     "=", ":", "[", "]", "<", ">", "\""}

\* the characters validUserinfo lets through
UserinfoChars ==
    Letters \cup Digits \cup
    {"-", ".", "_", ":", "~", "!", "$", "&", "'", "(", ")", "*", "+", ",",
     ";", "=", "%", "@"}

\* parseHost: TRUE when it returns no error
parseHostOK(host) ==
    /\ LastIndex(host, ":") # -1 =>
           validOptionalPort(From(host, LastIndex(host, ":")))
    /\ \A i \in 1..Len(host) : host[i] \in HostChars

\* parseAuthority: TRUE when it returns no error
parseAuthorityOK(authority) ==
    LET i == LastIndex(authority, "@")
    IN  IF i < 0
        THEN parseHostOK(authority)
        ELSE /\ parseHostOK(From(authority, i + 1))
             /\ \A j \in 1..i : authority[j] \in UserinfoChars

\* url.Parse: [err, Scheme]
urlParse(rawURL) ==
    LET failed == [err |-> TRUE, Scheme |-> <<>>]
        sch == getScheme(rawURL)
        Scheme == ToLower(sch.scheme)
        rest == sch.rest
        ok == [err |-> FALSE, Scheme |-> Scheme]
        segment == IF Contains(rest, "/")
                   THEN SubSeq(rest, 1, Index(rest, "/"))
                   ELSE rest
        afterSlashes == From(rest, 2)
        authority == IF Contains(afterSlashes, "/")
                     THEN SubSeq(afterSlashes, 1, Index(afterSlashes, "/"))
                     ELSE afterSlashes
    IN  IF Contains(rawURL, "\n") THEN failed
        ELSE IF rawURL = <<"*">> THEN [err |-> FALSE, Scheme |-> <<>>]
        ELSE IF sch.err THEN failed
        ELSE IF ~HasPrefix(rest, <<"/">>) /\ Scheme # <<>> THEN ok
        ELSE IF ~HasPrefix(rest, <<"/">>) /\ Contains(segment, ":") THEN failed
        ELSE IF /\ Scheme # <<>> \/ ~HasPrefix(rest, <<"/", "/", "/">>)
                /\ HasPrefix(rest, <<"/", "/">>)
                /\ ~parseAuthorityOK(authority)
             THEN failed
        ELSE ok

-----------------------------------------------------------------------------
(* path/filepath on Unix *)

RECURSIVE SplitPath(_)
\* strings.Split(path, "/")
SplitPath(path) ==
    IF Contains(path, "/")
    THEN <<SubSeq(path, 1, Index(path, "/"))>>
             \o SplitPath(From(path, Index(path, "/") + 1))
    ELSE <<path>>

RECURSIVE JoinPath(_)
\* strings.Join(segs, "/")
JoinPath(segs) ==
    IF segs = <<>> THEN <<>>
    ELSE IF Len(segs) = 1 THEN segs[1]
    ELSE segs[1] \o <<"/">> \o JoinPath(Tail(segs))

RECURSIVE CleanSegs(_, _, _)
\* the elements filepath.Clean keeps: empty ones and "." go, ".." takes the
\* element before it, stays in front of a relative path, goes at the root
CleanSegs(segs, out, rooted) ==
    IF segs = <<>> THEN out
    ELSE LET e == Head(segs)
         IN  IF e = <<>> \/ e = <<".">>
             THEN CleanSegs(Tail(segs), out, rooted)
             ELSE IF e = <<".", ".">>
             THEN IF out # <<>> /\ out[Len(out)] # <<".", ".">>
                  THEN CleanSegs(Tail(segs), SubSeq(out, 1, Len(out) - 1), rooted)
                  ELSE IF rooted
                  THEN CleanSegs(Tail(segs), out, rooted)
                  ELSE CleanSegs(Tail(segs), Append(out, e), rooted)
             ELSE CleanSegs(Tail(segs), Append(out, e), rooted)

\* filepath.Clean
Clean(path) ==
    LET rooted == HasPrefix(path, <<"/">>)
        kept == JoinPath(CleanSegs(SplitPath(path), <<>>, rooted))
    IN  IF rooted THEN <<"/">> \o kept
        ELSE IF kept = <<>> THEN <<".">>
        ELSE kept

\* filepath.Join(a, b)
FilepathJoin(a, b) ==
    IF a # <<>> THEN Clean(a \o <<"/">> \o b)
    ELSE IF b # <<>> THEN Clean(b)
    ELSE <<>>

-----------------------------------------------------------------------------
(* src/common.go *)

GitURI == 0
HTTPURI == 1
FileURI == 2
Unknown == 3

\* URIType.String
String(t) ==
    << <<"G", "i", "t", "U", "R", "I">>,
       <<"H", "T", "T", "P", "U", "R", "I">>,
       <<"F", "i", "l", "e", "U", "R", "I">>,
       <<"U", "n", "k", "n", "o", "w", "n">> >>[t + 1]

\* An error value: nil, or a message made of a format and the string put in
\* its verb; wraps is the format of the error a %w verb wraps ("" for none),
\* whose own verb is then arg.
Nil == [nil |-> TRUE, fmt |-> "", arg |-> <<>>, wraps |-> ""]
\* fmt.Errorf(format, arg) with a %s verb
Errorf(format, arg) == [nil |-> FALSE, fmt |-> format, arg |-> arg, wraps |-> ""]
\* fmt.Errorf(format, err) with a %w verb
Wrapf(format, err) ==
    [nil |-> FALSE, fmt |-> format, arg |-> err.arg, wraps |-> err.fmt]
\* errors.Unwrap
Unwrap(err) ==
    IF err.nil \/ err.wraps = "" THEN Nil ELSE Errorf(err.wraps, err.arg)

\* what GetHomeDir can answer: a directory, or an error
HomeDirs == { <<"/", "h", "o", "m", "e", "/", "u">>,
              <<"/", "s", "r", "v", "/", "u", ".", "g", "i", "t">> }
Resolvers ==
    {[err |-> FALSE, dir |-> d] : d \in HomeDirs}
        \cup {[err |-> TRUE, dir |-> <<>>]}

VARIABLES
    GetHomeDir,         \* the process-wide home-directory resolver
    protocolHandlers,   \* the registry: canonical category name -> Gatherer
    input,              \* the string the ClassifyURI calls are made on
    prev, last,         \* the two most recent ClassifyURI calls on input
    calls,              \* each caller's Gather call
    invocations         \* per call, the Gatherer invocations made for it

vars == <<GetHomeDir, protocolHandlers, input, prev, last, calls, invocations>>

\* ExpandTilde without the test for a leading ~/
ExpandTildeNoPrefixTest(path, home) ==
    IF home.err THEN path ELSE FilepathJoin(home.dir, From(path, 2))

\* ExpandTilde that pastes the home directory in place of the tilde
ExpandTildeNoClean(path, home) ==
    IF HasPrefix(path, <<"~", "/">>)
    THEN IF home.err THEN path ELSE home.dir \o From(path, 1)
    ELSE path

\* ExpandTilde; home is what the call GetHomeDir() returns
ExpandTilde(path, home) ==
    IF HasPrefix(path, <<"~", "/">>)
    THEN IF home.err
         THEN path
         ELSE FilepathJoin(home.dir, From(path, 2))
    ELSE path

Result(t, err) == [type |-> t, err |-> err]

\* lines 90-101 without the test for a dot
ClassifyUnmatchedNoDotTest(in) ==
    LET parsedURI == urlParse(in)
    IN  IF /\ ~parsedURI.err
           /\ parsedURI.Scheme # <<>>
           /\ parsedURI.Scheme # <<"h", "t", "t", "p">>
           /\ parsedURI.Scheme # <<"h", "t", "t", "p", "s">>
        THEN Result(Unknown,
                    Errorf("unsupported source protocol: %s", parsedURI.Scheme))
        ELSE Result(Unknown, Nil)

\* lines 90-101: unsupported scheme, dotted string, Unknown
ClassifyUnmatched(in) ==
    LET parsedURI == urlParse(in)
    IN  IF /\ ~parsedURI.err
           /\ parsedURI.Scheme # <<>>
           /\ parsedURI.Scheme # <<"h", "t", "t", "p">>
           /\ parsedURI.Scheme # <<"h", "t", "t", "p", "s">>
        THEN Result(Unknown,
                    Errorf("unsupported source protocol: %s", parsedURI.Scheme))
        ELSE IF Contains(in, ".")
        THEN Result(Unknown,
                    Errorf("got %s. HTTP(S) URIs require a scheme (http:// or https://)",
                           in))
        ELSE Result(Unknown, Nil)

\* lines 81-88: true when the HTTP branch returns HTTPURI
IsHTTP(in) ==
    /\ MatchWhole(httpURIPattern, in)
    /\ LET parsedURI == urlParse(in)
       IN  /\ ~parsedURI.err
           /\ \/ parsedURI.Scheme = <<"h", "t", "t", "p">>
              \/ parsedURI.Scheme = <<"h", "t", "t", "p", "s">>

\* lines 65-74: the file-path branch
ClassifyFilePath(in, home) ==
    IF HasSuffix(ExpandTilde(in, home), <<".", "g", "i", "t">>)
    THEN Result(GitURI, Nil)
    ELSE Result(FileURI, Nil)

\* lines 65-101 with the HTTP pattern tried before the Git one
ClassifyShapeHTTPFirst(in, home) ==
    IF MatchStart(filePathPattern, in) THEN ClassifyFilePath(in, home)
    ELSE IF IsHTTP(in) THEN Result(HTTPURI, Nil)
    ELSE IF MatchWhole(gitURIPattern, in) THEN Result(GitURI, Nil)
    ELSE ClassifyUnmatched(in)

\* lines 65-101 without the unsupported-scheme test
ClassifyShapeNoSchemeTest(in, home) ==
    IF MatchStart(filePathPattern, in) THEN ClassifyFilePath(in, home)
    ELSE IF MatchWhole(gitURIPattern, in) THEN Result(GitURI, Nil)
    ELSE IF IsHTTP(in) THEN Result(HTTPURI, Nil)
    ELSE IF Contains(in, ".")
    THEN Result(Unknown,
                Errorf("got %s. HTTP(S) URIs require a scheme (http:// or https://)",
                       in))
    ELSE Result(Unknown, Nil)

\* lines 65-101: the shapes, in the order the code tries them
ClassifyShape(in, home) ==
    IF MatchStart(filePathPattern, in) THEN ClassifyFilePath(in, home)
    ELSE IF MatchWhole(gitURIPattern, in) THEN Result(GitURI, Nil)
    ELSE IF IsHTTP(in) THEN Result(HTTPURI, Nil)
    ELSE ClassifyUnmatched(in)

\* ClassifyURI without the tests for git::, file:: and http::
ClassifyURINoPrefixes(in, home) ==
    IF \/ HasPrefix(in, <<"g", "i", "t", "h", "u", "b", ".", "c", "o", "m">>)
       \/ HasPrefix(in, <<"g", "i", "t", "l", "a", "b", ".", "c", "o", "m">>)
    THEN Result(GitURI, Nil)
    ELSE ClassifyShape(in, home)

\* ClassifyURI; home is what GetHomeDir() returns during the call
ClassifyURI(in, home) ==
    IF HasPrefix(in, <<"g", "i", "t", ":", ":">>) THEN Result(GitURI, Nil)
    ELSE IF HasPrefix(in, <<"f", "i", "l", "e", ":", ":">>) THEN Result(FileURI, Nil)
    ELSE IF HasPrefix(in, <<"h", "t", "t", "p", ":", ":">>) THEN Result(HTTPURI, Nil)
    ELSE IF \/ HasPrefix(in, <<"g", "i", "t", "h", "u", "b", ".", "c", "o", "m">>)
            \/ HasPrefix(in, <<"g", "i", "t", "l", "a", "b", ".", "c", "o", "m">>)
    THEN Result(GitURI, Nil)
    ELSE ClassifyShape(in, home)

-----------------------------------------------------------------------------
(* The inputs of ClassifyURI: the strings the specification names, and     *)
(* every prefix below followed by at most MaxLen atoms.                    *)

ExGitHTTPS ==
    <<"h", "t", "t", "p", "s", ":", "/", "/", "h", "o", "s", "t", ".", "e",
      "x", "a", "m", "p", "l", "e", "/", "o", "w", "n", "e", "r", "/", "r",
      "e", "p", "o", ".", "g", "i", "t">>
ExSomePage ==
    <<"h", "t", "t", "p", "s", ":", "/", "/", "h", "o", "s", "t", ".", "e",
      "x", "a", "m", "p", "l", "e", "/", "s", "o", "m", "e", "/", "p", "a",
      "g", "e">>
ExPage ==
    <<"h", "t", "t", "p", "s", ":", "/", "/", "h", "o", "s", "t", ".", "e",
      "x", "a", "m", "p", "l", "e", "/", "p", "a", "g", "e">>
ExNoScheme ==
    <<"e", "x", "a", "m", "p", "l", "e", ".", "c", "o", "m", "/", "n", "o",
      "-", "s", "c", "h", "e", "m", "e">>
ExDotted == <<"e", "x", "a", "m", "p", "l", "e", ".", "c", "o", "m">>
ExFTP ==
    <<"f", "t", "p", ":", "/", "/", "h", "o", "s", "t", "/", "r", "e", "s",
      "o", "u", "r", "c", "e">>
ExLocal == <<".", "/", "l", "o", "c", "a", "l", "/", "p", "a", "t", "h">>
ExOwnerRepo == <<"o", "w", "n", "e", "r", "/", "r", "e", "p", "o">>
ExOwnerRepoGit ==
    <<"o", "w", "n", "e", "r", "/", "r", "e", "p", "o", ".", "g", "i", "t">>
ExPlain == <<"p", "l", "a", "i", "n">>
ExTildeRepo == <<"~", "/", "r", "e", "p", "o", ".", "g", "i", "t", "/">>

Examples ==
    {<<>>, ExGitHTTPS, ExSomePage, ExPage, ExNoScheme, ExDotted,
     ExFTP, ExLocal, ExOwnerRepo, ExOwnerRepoGit, ExPlain, ExTildeRepo}

Prefixes ==
    { <<>>,
      <<"g", "i", "t", ":", ":">>,
      <<"f", "i", "l", "e", ":", ":">>,
      <<"h", "t", "t", "p", ":", ":">>,
      <<"g", "i", "t", "h", "u", "b", ".", "c", "o", "m">>,
      <<"g", "i", "t", "l", "a", "b", ".", "c", "o", "m">>,
      <<".", "/">>,
      <<".", ".", "/">>,
      <<"/">>,
      <<"c", ":", "\\">>,
      <<"~", "/">>,
      <<"f", "i", "l", "e", ":", "/", "/">>,
      <<"g", "i", "t", "@", "a", ":">>,
      <<"h", "t", "t", "p", "s", ":", "/", "/">>,
      <<"h", "t", "t", "p", ":", "/", "/">>,
      <<"h", "t", "t", "p", "s", ":", "/", "/", "a", ".", "a", "/">>,
      <<"g", "i", "t", ":", "/", "/", "a", "/">>,
      <<"a", "/", "a", "/">>,
      <<"f", "t", "p", ":", "/", "/">>,
      <<"F", "T", "P", ":", "/", "/">>,
      <<"a", ":">>,
      <<"f", "t", "p", ":", "/", "/", "a", ":">> }

Atoms == {<<"a">>, <<".">>, <<"/">>, <<".", "g", "i", "t">>}

RECURSIVE Flatten(_)
Flatten(ss) == IF ss = <<>> THEN <<>> ELSE Head(ss) \o Flatten(Tail(ss))

Bodies == {Flatten(b) : b \in UNION {[1..n -> Atoms] : n \in 0..MaxLen}}

Inputs == Examples \cup {p \o b : p \in Prefixes, b \in Bodies}

\* the sources the callers of Gather pass
Sources == {ExLocal, ExTildeRepo, ExPage, ExFTP, ExPlain, <<>>}

\* ClassifyURI on the strings of the model, under each resolver
Classification ==
    [home \in Resolvers |-> [in \in Inputs \cup Sources |-> ClassifyURI(in, home)]]

\* the call ClassifyURI(in), under the resolver in place
Classified(in) == Classification[GetHomeDir][in]

-----------------------------------------------------------------------------
(* src/gather/gather.go *)

Procs == 1..NumProcs

\* the values a caller passes: a live context and an already canceled one
Contexts == {"ctxLive", "ctxCanceled"}
Destinations == {<<"d">>, <<"e">>}

\* the registry as built at process start
InitialHandlers ==
    (String(FileURI) :> "FileGatherer")
        @@ (String(GitURI) :> "GitGatherer")
        @@ (String(HTTPURI) :> "HTTPGatherer")

\* what a Gatherer's Gather can return: its metadata, or an error
GathererResults(gatherer) ==
    { [md |-> <<gatherer, "Metadata">>, err |-> Nil],
      [md |-> <<"nil">>, err |-> Errorf("%s", <<"t", "r", "a", "n", "s", "f", "e", "r">>)] }

NoCall ==
    [pc |-> "idle", ctx |-> "", source |-> <<>>, destination |-> <<>>,
     md |-> <<"nil">>, err |-> Nil]

\* the call of p, having returned (md, err)
Returned(p, md, err) == [calls[p] EXCEPT !.pc = "done", !.md = md, !.err = err]

\* the call gatherer.Gather(ctx, source, destination), not yet returned
Invocation(gatherer, ctx, source, destination) ==
    [gatherer |-> gatherer, ctx |-> ctx, source |-> source,
     destination |-> destination, returned |-> FALSE, md |-> <<"nil">>, err |-> Nil]

Called(p, ctx, source, destination) ==
    [NoCall EXCEPT !.ctx = ctx, !.source = source, !.destination = destination]

\* Gather that goes on to the registry when classification fails
GatherIgnoringClassifyError(p, ctx, source, destination) ==
    /\ calls[p].pc = "idle"
    /\ LET srcProtocol == Classified(source).type
           call == Called(p, ctx, source, destination)
       IN  IF String(srcProtocol) \in DOMAIN protocolHandlers
           THEN /\ calls' = [calls EXCEPT ![p] = [call EXCEPT !.pc = "transport"]]
                /\ invocations' = [invocations EXCEPT ![p] = Append(@,
                       Invocation(protocolHandlers[String(srcProtocol)],
                                  ctx, source, destination))]
           ELSE /\ calls' = [calls EXCEPT ![p] =
                       [call EXCEPT !.pc = "done",
                                    !.err = Errorf("unsupported source protocol: %s",
                                                   String(srcProtocol))]]
                /\ UNCHANGED invocations
    /\ UNCHANGED <<GetHomeDir, protocolHandlers, input, prev, last>>

\* Gather that hands the Gatherer a context of its own
GatherFreshContext(p, ctx, source, destination) ==
    /\ calls[p].pc = "idle"
    /\ LET c == Classified(source)
           call == Called(p, ctx, source, destination)
       IN  IF ~c.err.nil
           THEN /\ calls' = [calls EXCEPT ![p] =
                       [call EXCEPT !.pc = "done",
                                    !.err = Wrapf("failed to classify source URI: %w",
                                                  c.err)]]
                /\ UNCHANGED invocations
           ELSE IF String(c.type) \in DOMAIN protocolHandlers
           THEN /\ calls' = [calls EXCEPT ![p] = [call EXCEPT !.pc = "transport"]]
                /\ invocations' = [invocations EXCEPT ![p] = Append(@,
                       Invocation(protocolHandlers[String(c.type)],
                                  "ctxBackground", source, destination))]
           ELSE /\ calls' = [calls EXCEPT ![p] =
                       [call EXCEPT !.pc = "done",
                                    !.err = Errorf("unsupported source protocol: %s",
                                                   String(c.type))]]
                /\ UNCHANGED invocations
    /\ UNCHANGED <<GetHomeDir, protocolHandlers, input, prev, last>>

\* Gather that returns (nil, nil) when the registry has no entry
GatherSilentNoOp(p, ctx, source, destination) ==
    /\ calls[p].pc = "idle"
    /\ LET c == Classified(source)
           call == Called(p, ctx, source, destination)
       IN  IF ~c.err.nil
           THEN /\ calls' = [calls EXCEPT ![p] =
                       [call EXCEPT !.pc = "done",
                                    !.err = Wrapf("failed to classify source URI: %w",
                                                  c.err)]]
                /\ UNCHANGED invocations
           ELSE IF String(c.type) \in DOMAIN protocolHandlers
           THEN /\ calls' = [calls EXCEPT ![p] = [call EXCEPT !.pc = "transport"]]
                /\ invocations' = [invocations EXCEPT ![p] = Append(@,
                       Invocation(protocolHandlers[String(c.type)],
                                  ctx, source, destination))]
           ELSE /\ calls' = [calls EXCEPT ![p] = [call EXCEPT !.pc = "done"]]
                /\ UNCHANGED invocations
    /\ UNCHANGED <<GetHomeDir, protocolHandlers, input, prev, last>>

\* Gather that registers the file Gatherer for a category it finds no entry for
GatherRegistering(p, ctx, source, destination) ==
    /\ calls[p].pc = "idle"
    /\ LET c == Classified(source)
           call == Called(p, ctx, source, destination)
       IN  IF ~c.err.nil
           THEN /\ calls' = [calls EXCEPT ![p] =
                       [call EXCEPT !.pc = "done",
                                    !.err = Wrapf("failed to classify source URI: %w",
                                                  c.err)]]
                /\ UNCHANGED <<invocations, protocolHandlers>>
           ELSE IF String(c.type) \in DOMAIN protocolHandlers
           THEN /\ calls' = [calls EXCEPT ![p] = [call EXCEPT !.pc = "transport"]]
                /\ invocations' = [invocations EXCEPT ![p] = Append(@,
                       Invocation(protocolHandlers[String(c.type)],
                                  ctx, source, destination))]
                /\ UNCHANGED protocolHandlers
           ELSE /\ calls' = [calls EXCEPT ![p] =
                       [call EXCEPT !.pc = "done",
                                    !.err = Errorf("unsupported source protocol: %s",
                                                   String(c.type))]]
                /\ protocolHandlers' =
                       (String(c.type) :> "FileGatherer") @@ protocolHandlers
                /\ UNCHANGED invocations
    /\ UNCHANGED <<GetHomeDir, input, prev, last>>

\* Gather, up to its call of the Gatherer: it classifies source, returns the
\* wrapped error of a failed classification, looks the category's name up in
\* the registry, and calls the Gatherer found or returns "unsupported".
Gather(p, ctx, source, destination) ==
    /\ calls[p].pc = "idle"
    /\ LET c == Classified(source)
           call == Called(p, ctx, source, destination)
       IN  IF ~c.err.nil
           THEN /\ calls' = [calls EXCEPT ![p] =
                       [call EXCEPT !.pc = "done",
                                    !.err = Wrapf("failed to classify source URI: %w",
                                                  c.err)]]
                /\ UNCHANGED invocations
           ELSE IF String(c.type) \in DOMAIN protocolHandlers
           THEN /\ calls' = [calls EXCEPT ![p] = [call EXCEPT !.pc = "transport"]]
                /\ invocations' = [invocations EXCEPT ![p] = Append(@,
                       Invocation(protocolHandlers[String(c.type)],
                                  ctx, source, destination))]
           ELSE /\ calls' = [calls EXCEPT ![p] =
                       [call EXCEPT !.pc = "done",
                                    !.err = Errorf("unsupported source protocol: %s",
                                                   String(c.type))]]
                /\ UNCHANGED invocations
    /\ UNCHANGED <<GetHomeDir, protocolHandlers, input, prev, last>>

\* line 55, the return: the Gatherer returns res, and Gather returns it
GathererReturns(p, res) ==
    /\ calls[p].pc = "transport"
    /\ res \in GathererResults(invocations[p][Len(invocations[p])].gatherer)
    /\ invocations' = [invocations EXCEPT ![p][Len(invocations[p])] =
           [@ EXCEPT !.returned = TRUE, !.md = res.md, !.err = res.err]]
    /\ calls' = [calls EXCEPT ![p] = Returned(p, res.md, res.err)]
    /\ UNCHANGED <<GetHomeDir, protocolHandlers, input, prev, last>>

-----------------------------------------------------------------------------
(* The callers of ClassifyURI *)

NoResult == [called |-> FALSE, home |-> [err |-> TRUE, dir |-> <<>>],
             type |-> Unknown, err |-> Nil]

\* a call ClassifyURI(input); home is the resolver in place during the call
Classify ==
    /\ LET r == Classified(input)
       IN  last' = [called |-> TRUE, home |-> GetHomeDir, type |-> r.type,
                    err |-> r.err]
    /\ prev' = last
    /\ UNCHANGED <<GetHomeDir, protocolHandlers, input, calls, invocations>>

\* an assignment to the variable GetHomeDir, as a test makes it
SetGetHomeDir(r) ==
    /\ r # GetHomeDir
    /\ GetHomeDir' = r
    /\ UNCHANGED <<protocolHandlers, input, prev, last, calls, invocations>>

-----------------------------------------------------------------------------
(* Specifications *)

InitDispatch ==
    /\ protocolHandlers = InitialHandlers
    /\ calls = [p \in Procs |-> NoCall]
    /\ invocations = [p \in Procs |-> <<>>]

\* concurrent Gather calls
Init ==
    /\ GetHomeDir \in Resolvers
    /\ InitDispatch
    /\ input = <<>>
    /\ prev = NoResult
    /\ last = NoResult

Next ==
    \/ \E p \in Procs, ctx \in Contexts, source \in Sources,
          destination \in Destinations : Gather(p, ctx, source, destination)
    \/ \E p \in Procs :
          \E res \in GathererResults("FileGatherer")
                       \cup GathererResults("GitGatherer")
                       \cup GathererResults("HTTPGatherer") : GathererReturns(p, res)

Spec == Init /\ [][Next]_vars

\* ClassifyURI called on one input, under resolvers that change between calls
InitClassify ==
    /\ GetHomeDir \in Resolvers
    /\ InitDispatch
    /\ input \in Inputs
    /\ prev = NoResult
    /\ last = NoResult

NextClassify ==
    \/ Classify
    \/ \E r \in Resolvers : SetGetHomeDir(r)

SpecClassify == InitClassify /\ [][NextClassify]_vars

-----------------------------------------------------------------------------
(* The dispatcher's properties, under Spec *)

\* the calls that have been made
Started == {p \in Procs : calls[p].pc # "idle"}

\* C1: a Gather call whose source fails classification returns nil metadata
\* and an error that wraps the classification error, and no Gatherer is
\* invoked for it.
C1_ClassifyErrorPropagated ==
    \A p \in Started :
        LET c == Classified(calls[p].source)
        IN  ~c.err.nil =>
                /\ calls[p].pc = "done"
                /\ calls[p].md = <<"nil">>
                /\ ~calls[p].err.nil
                /\ calls[p].err.fmt = "failed to classify source URI: %w"
                /\ Unwrap(calls[p].err) = c.err
                /\ invocations[p] = <<>>

C1_Witness ==
    \E p \in Procs :
        /\ calls[p].pc = "done"
        /\ calls[p].source = ExFTP
        /\ ~Classified(ExFTP).err.nil

\* C2: a Gather call whose source classifies, with no error, as a category
\* with a registered Gatherer invokes that Gatherer once and no other, with
\* the ctx, source and destination it received, and returns the metadata and
\* error the Gatherer returns.
C2_DispatchUnchanged ==
    \A p \in Started :
        LET c == Classified(calls[p].source)
            name == String(c.type)
        IN  c.err.nil /\ name \in DOMAIN InitialHandlers =>
                /\ Len(invocations[p]) = 1
                /\ invocations[p][1].gatherer = InitialHandlers[name]
                /\ invocations[p][1].ctx = calls[p].ctx
                /\ invocations[p][1].source = calls[p].source
                /\ invocations[p][1].destination = calls[p].destination
                /\ calls[p].pc = "transport" => ~invocations[p][1].returned
                /\ calls[p].pc = "done" =>
                       /\ invocations[p][1].returned
                       /\ calls[p].md = invocations[p][1].md
                       /\ calls[p].err = invocations[p][1].err

C2_Witness ==
    \E p \in Procs :
        /\ calls[p].pc = "done"
        /\ calls[p].source = ExLocal
        /\ calls[p].ctx = "ctxCanceled"
        /\ Len(invocations[p]) = 1
        /\ invocations[p][1].gatherer = "FileGatherer"
        /\ invocations[p][1].ctx = "ctxCanceled"
        /\ calls[p].md = <<"FileGatherer", "Metadata">>

\* C3: a Gather call whose source classifies, with no error, as a category
\* that has no registry entry (Unknown: the empty string, a dot-free string
\* of no recognized shape) never returns (nil, nil): it returns nil metadata
\* and an "unsupported source protocol" error naming the category, and
\* invokes no Gatherer.
C3_UnregisteredIsError ==
    /\ \A s \in {<<>>, ExPlain} : Classified(s) = Result(Unknown, Nil)
    /\ \A p \in Started :
        LET c == Classified(calls[p].source)
            name == String(c.type)
        IN  c.err.nil /\ name \notin DOMAIN InitialHandlers =>
                /\ c.type = Unknown
                /\ calls[p].pc = "done"
                /\ calls[p].md = <<"nil">>
                /\ ~calls[p].err.nil
                /\ calls[p].err = Errorf("unsupported source protocol: %s", name)
                /\ invocations[p] = <<>>

C3_Witness ==
    /\ \E p \in Procs : calls[p].pc = "done" /\ calls[p].source = <<>>
    /\ \E p \in Procs : calls[p].pc = "done" /\ calls[p].source = ExPlain

\* what a call selected: the Gatherer it invoked, or the error it returned
\* without invoking one
Selected(p) ==
    IF invocations[p] = <<>>
    THEN [gatherer |-> "none", err |-> calls[p].err]
    ELSE [gatherer |-> invocations[p][1].gatherer, err |-> Nil]

\* C10: in every state, whatever the number and interleaving of Gather
\* calls, the registry holds one Gatherer for each of "GitURI", "HTTPURI" and
\* "FileURI" and none for "Unknown", as it was built; and what a call
\* classifies its source as and selects does not depend on the other calls:
\* two calls on the same source select the same.
C10_RegistryReadOnly ==
    /\ protocolHandlers = InitialHandlers
    /\ DOMAIN protocolHandlers = {String(GitURI), String(HTTPURI), String(FileURI)}
    /\ String(Unknown) \notin DOMAIN protocolHandlers
    /\ \A p, q \in Started :
           calls[p].source = calls[q].source => Selected(p) = Selected(q)

\* two calls on one source in flight together
C10_Witness ==
    \E p, q \in Procs :
        /\ p # q
        /\ calls[p].pc = "transport"
        /\ calls[q].pc = "transport"
        /\ calls[p].source = ExTildeRepo
        /\ calls[q].source = ExTildeRepo
        /\ Selected(p).gatherer = "GitGatherer"

-----------------------------------------------------------------------------
(* The classifier's properties, under SpecClassify *)

IsGit(r) == r.type = GitURI /\ r.err.nil
IsFile(r) == r.type = FileURI /\ r.err.nil
IsHTTPResult(r) == r.type = HTTPURI /\ r.err.nil

HTTPScheme == {<<"h", "t", "t", "p", ":", "/", "/">>,
               <<"h", "t", "t", "p", "s", ":", "/", "/">>}

\* the code's rules 1 and 2: a forcing prefix or a hosting shorthand
Forced(in) ==
    \E pre \in { <<"g", "i", "t", ":", ":">>, <<"f", "i", "l", "e", ":", ":">>,
                 <<"h", "t", "t", "p", ":", ":">>,
                 <<"g", "i", "t", "h", "u", "b", ".", "c", "o", "m">>,
                 <<"g", "i", "t", "l", "a", "b", ".", "c", "o", "m">> } :
        HasPrefix(in, pre)

\* C4 as stated: https://host.example/owner/repo.git classifies as Git and
\* https://host.example/some/page classifies as HTTP.
C4_Original ==
    last.called =>
        /\ input = ExGitHTTPS => IsGit(last)
        /\ input = ExSomePage => IsHTTPResult(last)

\* C4, amended: https://host.example/owner/repo.git classifies as Git, and
\* so does https://host.example/some/page, as does every http(s) URL that
\* matches the Git pattern (http(s)://host/owner/repo, ".git" or not), which
\* is tried first; an http(s) URL with a dotted host that does not match the
\* Git pattern and parses as a URL, such as https://host.example/page,
\* classifies as HTTP.
C4_GitShapeBeforeHTTP ==
    last.called =>
        /\ input = ExGitHTTPS => IsGit(last)
        /\ input = ExSomePage => IsGit(last)
        /\ input = ExPage => IsHTTPResult(last)
        /\ \A pre \in HTTPScheme :
               HasPrefix(input, pre) =>
                   IF MatchWhole(gitURIPattern, input)
                   THEN IsGit(last)
                   ELSE (MatchWhole(httpURIPattern, input) /\ ~urlParse(input).err
                            => IsHTTPResult(last))

C4_Witness ==
    /\ last.called
    /\ input = ExSomePage
    /\ MatchWhole(httpURIPattern, input)
    /\ IsGit(last)

\* C5 as stated: example.com/no-scheme fails classification with the error
\* that says HTTP(S) inputs require a scheme.
C5_Original ==
    last.called /\ input = ExNoScheme =>
        /\ ~last.err.nil
        /\ last.err.fmt = "got %s. HTTP(S) URIs require a scheme (http:// or https://)"

\* C5, amended: example.com/no-scheme classifies as Git with no error, as it
\* matches the bare owner/repo shape, which is tried before the dotted-string
\* rule; a string with a dot that no earlier rule matches and that does not
\* parse as a URI with a scheme, such as example.com, gets Unknown and the
\* error that says HTTP(S) inputs require a scheme, naming the input.
C5_DottedNeedsScheme ==
    last.called =>
        /\ input = ExNoScheme => IsGit(last)
        /\ input = ExDotted =>
               /\ last.type = Unknown
               /\ last.err = Errorf("got %s. HTTP(S) URIs require a scheme (http:// or https://)",
                                    ExDotted)
        /\ /\ Contains(input, ".")
           /\ ~Forced(input)
           /\ ~MatchStart(filePathPattern, input)
           /\ ~MatchWhole(gitURIPattern, input)
           /\ ~MatchWhole(httpURIPattern, input)
           /\ urlParse(input).err \/ urlParse(input).Scheme = <<>>
           => /\ last.type = Unknown
              /\ last.err = Errorf("got %s. HTTP(S) URIs require a scheme (http:// or https://)",
                                   input)

C5_Witness ==
    /\ last.called
    /\ input = ExDotted
    /\ ~last.err.nil

\* C6: an input that begins with git::, file:: or http:: classifies as Git,
\* File or HTTP, with no error, whatever follows the prefix.
C6_PrefixForces ==
    last.called =>
        /\ HasPrefix(input, <<"g", "i", "t", ":", ":">>) => IsGit(last)
        /\ HasPrefix(input, <<"f", "i", "l", "e", ":", ":">>) => IsFile(last)
        /\ HasPrefix(input, <<"h", "t", "t", "p", ":", ":">>) => IsHTTPResult(last)

\* after http:: comes a string that alone is a classification error
C6_Witness ==
    /\ last.called
    /\ input = <<"h", "t", "t", "p", ":", ":", "a", ".", "a">>
    /\ IsHTTPResult(last)

\* the local-path shapes C7 lists
LocalPathShape(in) ==
    \/ \E pre \in { <<".", "/">>, <<".", ".", "/">>, <<"/">>, <<"~", "/">>,
                    <<"f", "i", "l", "e", ":", "/", "/">> } : HasPrefix(in, pre)
    \/ /\ Len(in) >= 3
       /\ in[1] \in Letters
       /\ SubSeq(in, 2, 3) = <<":", "\\">>

Tilde(in) == HasPrefix(in, <<"~", "/">>)
DotGit == <<".", "g", "i", "t">>

\* C7 as stated: an input of local-path shape classifies as Git when it ends
\* in .git once the home directory is put in place of a leading tilde, and
\* as File otherwise; with no home directory the input is tested as it is.
C7_Original ==
    last.called /\ LocalPathShape(input) /\ ~Forced(input) =>
        LET expanded == IF Tilde(input) /\ ~last.home.err
                        THEN last.home.dir \o From(input, 1)
                        ELSE input
        IN  IF HasSuffix(expanded, DotGit) THEN IsGit(last) ELSE IsFile(last)

\* C7, amended: an input of local-path shape classifies as Git when what
\* ExpandTilde returns ends in .git, and as File otherwise, with no error;
\* for a leading ~/ and a home directory that resolves, ExpandTilde returns
\* filepath.Join(home, rest), the cleaned path (no trailing or doubled
\* separator, no "." element, ".." resolved), so that ~/repo.git/ is Git;
\* with no home directory, and for every other input, the input is tested
\* as it is.
C7_LocalPathJoined ==
    last.called /\ LocalPathShape(input) /\ ~Forced(input) =>
        LET expanded == IF Tilde(input) /\ ~last.home.err
                        THEN FilepathJoin(last.home.dir, From(input, 2))
                        ELSE input
        IN  IF HasSuffix(expanded, DotGit) THEN IsGit(last) ELSE IsFile(last)

C7_Witness ==
    /\ last.called
    /\ input = <<"~", "/", ".", "g", "i", "t", "/">>
    /\ ~last.home.err
    /\ IsGit(last)

\* C8 as stated: ftp://host/resource gets Unknown and an error whose message
\* is "unsupported protocol: ftp".
C8_Original ==
    last.called /\ input = ExFTP =>
        /\ last.type = Unknown
        /\ last.err = Errorf("unsupported protocol: %s", <<"f", "t", "p">>)

\* C8, amended: ftp://host/resource gets Unknown and an error whose message
\* is "unsupported source protocol: ftp"; an input no earlier rule matches
\* that parses as a URI with a scheme other than http and https gets Unknown
\* and the error "unsupported source protocol: <scheme>", the scheme in
\* lower case.
C8_UnsupportedScheme ==
    last.called =>
        /\ input = ExFTP =>
               /\ last.type = Unknown
               /\ last.err = Errorf("unsupported source protocol: %s",
                                    <<"f", "t", "p">>)
        /\ /\ ~Forced(input)
           /\ ~MatchStart(filePathPattern, input)
           /\ ~MatchWhole(gitURIPattern, input)
           /\ ~MatchWhole(httpURIPattern, input)
           /\ ~urlParse(input).err
           /\ urlParse(input).Scheme
                  \notin {<<>>, <<"h", "t", "t", "p">>, <<"h", "t", "t", "p", "s">>}
           => /\ last.type = Unknown
              /\ last.err = Errorf("unsupported source protocol: %s",
                                   ToLower(getScheme(input).scheme))

C8_Witness ==
    /\ last.called
    /\ input = <<"F", "T", "P", ":", "/", "/", "a">>
    /\ last.err.arg = <<"f", "t", "p">>

\* C9: two ClassifyURI calls on one input return the same category and the
\* same error, unless the input begins with ~/ and the home directory
\* resolver differs between the calls.
C9_Deterministic ==
    /\ prev.called
    /\ last.called
    /\ ~Tilde(input) \/ prev.home = last.home
    => /\ prev.type = last.type
       /\ prev.err = last.err

\* a local path classified under two resolvers
C9_Witness ==
    /\ prev.called
    /\ last.called
    /\ prev.home # last.home
    /\ ~prev.home.err
    /\ last.home.err
    /\ input = <<".", "/", ".", "g", "i", "t", "/">>

=============================================================================
